---- MODULE Spec2Model ----
(***************************************************************************)
(* Spatial Data Platform API (main.py): the request handlers for point and *)
(* polygon features, run by concurrent requests against one PostgreSQL /   *)
(* PostGIS store.  Every request owns a SQLAlchemy session (get_db); its   *)
(* INSERTs are flushed into its own transaction and become visible to the  *)
(* other requests at db.commit(); a request that ends by an exception      *)
(* closes its session, which rolls the transaction back.                   *)
(***************************************************************************)
EXTENDS Integers, Sequences, FiniteSets, TLC

\* ---------------------------------------------------------------- bounds
MaxBatch == 2      \* longest features list of a FeatureCollection
MaxId    == 2      \* ids a table's sequence hands out before the model stops creating
MaxClock == 1      \* last clock value; the clock stops there

\* The request slots: requests that may be in flight at the same time.
Req == {"r1", "r2"}

\* ------------------------------------------------------- program constants
SRID == 4326

Kinds == {"Point", "Polygon"}

\* __tablename__ of the model class of a feature kind
TableOf(kind) == IF kind = "Point" THEN "point_data" ELSE "polygon_data"
Tables == {"point_data", "polygon_data"}

\* name = feature.properties.get("name", "Unnamed Point" / "Unnamed Polygon")
DefaultName(kind) == IF kind = "Point" THEN "Unnamed Point" ELSE "Unnamed Polygon"

\* ------------------------------------------------------------ dictionaries
\* dict.get(key, default)
DictGet(d, key, default) == IF key \in DOMAIN d THEN d[key] ELSE default

NoProps == [k \in {} |-> ""]

\* ------------------------------------------------------------- geometries
\* A number is a coordinate in degrees, written as the whole number of its
\* 1e-10 parts: 10 is 0.000000001.  Python's repr of a float and the engine's
\* parser of the text give back the same number.
\* A closed ring of an axis-parallel rectangle, as GeoJSON writes it.
Rect(x1, y1, x2, y2) ==
    << <<x1, y1>>, <<x2, y1>>, <<x2, y2>>, <<x1, y2>>, <<x1, y1>> >>

GeoPoint(c)   == [type |-> "Point",   coordinates |-> c]
GeoPolygon(r) == [type |-> "Polygon", coordinates |-> <<r>>]

\* f"POINT({coords[0]} {coords[1]})": the text holds the first two numbers only.
\* <<"IndexError">> when coords holds fewer than two, <<"KeyError">> without the key.
WktPoint(geometry) ==
    IF "coordinates" \notin DOMAIN geometry THEN <<"KeyError">>
    ELSE IF Len(geometry["coordinates"]) < 2 THEN <<"IndexError">>
    ELSE <<"POINT", geometry["coordinates"][1], geometry["coordinates"][2]>>

\* shape(feature.geometry).wkt: shapely builds the polygon from its rings and
\* raises for a ring that is no linear ring.
WktPolygon(geometry) ==
    IF "coordinates" \notin DOMAIN geometry THEN <<"KeyError">>
    ELSE IF \E i \in 1..Len(geometry["coordinates"]) :
                Len(geometry["coordinates"][i]) < 4 THEN <<"ValueError">>
    ELSE <<"POLYGON", geometry["coordinates"]>>

Wkt(kind, geometry) ==
    IF kind = "Point" THEN WktPoint(geometry) ELSE WktPolygon(geometry)

IsError(wkt) == wkt[1] \in {"KeyError", "IndexError", "ValueError"}

\* func.ST_GeomFromText(wkt, 4326): the stored geometry value
ST_GeomFromText(wkt, srid) ==
    IF wkt[1] = "POINT"
    THEN [gtype |-> "POINT", srid |-> srid, x |-> wkt[2], y |-> wkt[3]]
    ELSE [gtype |-> "POLYGON", srid |-> srid, rings |-> wkt[2]]

\* func.ST_AsText(geom): the text holds up to fifteen decimal digits, all the
\* digits a number has here
ST_AsText(geom) ==
    IF geom.gtype = "POINT" THEN <<"POINT", geom.x, geom.y>>
    ELSE <<"POLYGON", geom.rings>>

\* The number as ST_AsGeoJSON writes it with its default of nine decimal
\* digits: rounded to the nearest 1e-9.
RoundDigits(v) ==
    IF v >= 0 THEN ((v + 5) \div 10) * 10 ELSE 0 - (((0 - v) + 5) \div 10) * 10

\* (mutant) the two coordinates of a point come out in the other order
ST_AsGeoJSONLatLon(geom) ==
    IF geom.gtype = "POINT" THEN GeoPoint(<<RoundDigits(geom.y), RoundDigits(geom.x)>>)
    ELSE [type |-> "Polygon", coordinates |-> geom.rings]

\* func.ST_AsGeoJSON(geom), parsed by json.loads
ST_AsGeoJSON(geom) ==
    IF geom.gtype = "POINT" THEN GeoPoint(<<RoundDigits(geom.x), RoundDigits(geom.y)>>)
    ELSE [type |-> "Polygon",
          coordinates |-> [i \in 1..Len(geom.rings) |->
              [j \in 1..Len(geom.rings[i]) |->
                  <<RoundDigits(geom.rings[i][j][1]), RoundDigits(geom.rings[i][j][2])>>]]]

\* The engine's predicates, on the axis-parallel rectangles and the points of
\* the inputs below: a rectangle is the closed box its ring spans.
SetMin(S) == CHOOSE m \in S : \A s \in S : m <= s
SetMax(S) == CHOOSE m \in S : \A s \in S : m >= s

RingOf(geom) == geom.rings[1]
Xs(geom) == {RingOf(geom)[i][1] : i \in 1..Len(RingOf(geom))}
Ys(geom) == {RingOf(geom)[i][2] : i \in 1..Len(RingOf(geom))}

\* ST_Intersects(a, b): the two polygons share a point (boundary included)
ST_Intersects(a, b) ==
    /\ SetMin(Xs(a)) <= SetMax(Xs(b)) /\ SetMin(Xs(b)) <= SetMax(Xs(a))
    /\ SetMin(Ys(a)) <= SetMax(Ys(b)) /\ SetMin(Ys(b)) <= SetMax(Ys(a))

\* ST_Within(point, polygon): the point lies in the polygon's interior
ST_Within(p, poly) ==
    /\ SetMin(Xs(poly)) < p.x /\ p.x < SetMax(Xs(poly))
    /\ SetMin(Ys(poly)) < p.y /\ p.y < SetMax(Ys(poly))

\* One metre on the ground in the unit of the coordinates (about 9e-6 degrees).
Metre == 90000

Abs(v) == IF v >= 0 THEN v ELSE 0 - v
Larger(a, b) == IF a >= b THEN a ELSE b

\* How far the geometry is from (lon, lat).  The engine measures on the
\* spheroid; here it is the larger of the two coordinate differences, to the
\* point or to the box of the polygon.
DistanceTo(geom, lon, lat) ==
    IF geom.gtype = "POINT" THEN Larger(Abs(geom.x - lon), Abs(geom.y - lat))
    ELSE Larger(Larger(0, Larger(SetMin(Xs(geom)) - lon, lon - SetMax(Xs(geom)))),
                Larger(0, Larger(SetMin(Ys(geom)) - lat, lat - SetMax(Ys(geom)))))

\* ST_DWithin(geom::geography, ST_SetSRID(ST_MakePoint(lon, lat), 4326)::geography,
\* distance), distance in metres: no geometry is within a negative distance.
ST_DWithin(geom, lon, lat, distance) ==
    distance >= 0 /\ DistanceTo(geom, lon, lat) <= distance * Metre

\* ------------------------------------------------------------------ inputs
\* Request bodies are values of the pydantic schemas (app/schemas/spatial.py):
\* type: str, geometry: dict, properties: dict.
GeomA(kind) ==
    IF kind = "Point" THEN GeoPoint(<<10, 10>>) ELSE GeoPolygon(Rect(0, 0, 20, 20))
GeomB(kind) ==
    IF kind = "Point" THEN GeoPoint(<<90, 90>>) ELSE GeoPolygon(Rect(20, 20, 40, 40))
GeomC(kind) ==
    IF kind = "Point" THEN GeoPoint(<<30, 30>>) ELSE GeoPolygon(Rect(50, 50, 60, 60))
\* coordinates with a tenth decimal digit
GeomFine(kind) ==
    IF kind = "Point" THEN GeoPoint(<<14, 26>>) ELSE GeoPolygon(Rect(1, 1, 14, 26))

\* a geometry object without the "type" key
GeomNoType == [coordinates |-> <<10, 10>>]
\* geometries of the right type whose coordinates are too short
GeomShort(kind) ==
    IF kind = "Point" THEN GeoPoint(<<10>>) ELSE GeoPolygon(<< <<0, 0>>, <<20, 20>> >>)

Feature(type, geometry, properties) ==
    [type |-> type, geometry |-> geometry, properties |-> properties]

\* The features of the create requests, for the endpoint of their kind.
Named(kind) == Feature("Feature", GeomA(kind), [name |-> "n1", description |-> "d1"])
Unnamed(kind) == Feature("Feature", GeomC(kind), NoProps)
CreateValid(kind) == {Named(kind), Unnamed(kind)}
Fine(kind) == Feature("Feature", GeomFine(kind), [name |-> "n3"])

\* The features of the update requests.
Renamed(kind) == Feature("Feature", GeomB(kind), [name |-> "n2"])
UpdateValid(kind) ==
    { Renamed(kind),
      Feature("Feature", GeomA(kind), [description |-> "d2"]),
      Feature("Feature", GeomB(kind), NoProps) }

\* Bodies that are malformed for both endpoints; a valid feature of the other
\* kind is the body with the wrong geometry type.
BadTag == Feature("feature", GeomA("Point"), NoProps)
Malformed ==
    { BadTag,
      Feature("Feature", GeomNoType, NoProps),
      Feature("Feature", GeomShort("Point"), NoProps),
      Feature("Feature", GeomShort("Polygon"), NoProps) }

CreateInputs == CreateValid("Point") \cup CreateValid("Polygon") \cup Malformed
UpdateInputs == UpdateValid("Point") \cup UpdateValid("Polygon") \cup Malformed

\* the type tags of a collection
CollectionTypes == {"FeatureCollection", "Feature"}

Ids == 1..(MaxId + 1)

\* The query parameters: (lon, lat) at a point of the inputs and far from all
\* of them, and distances in metres.
QueryPoints == {<<10, 10>>, <<1000000, 10>>}
Distances == {0 - 1, 0, 1}

\* ------------------------------------------------------------------- state
VARIABLES
    tables,    \* the committed rows of point_data and polygon_data
    id_seq,    \* last value of each table's id sequence (SERIAL primary key)
    clock,     \* datetime.utcnow()
    session,   \* per request slot: the handler's position and its open transaction
    last,      \* the response of the request that finished last
    issued,    \* per table: the ids the successful creates returned, in order
    deleted    \* per table: the ids whose delete answered success

vars == <<tables, id_seq, clock, session, last, issued, deleted>>

Idle == [op |-> "idle"]
NoResponse == [op |-> "none", status |-> 0]

Init ==
    /\ tables = [t \in Tables |-> {}]
    /\ id_seq = [t \in Tables |-> 0]
    /\ clock = 0
    /\ session = [r \in Req |-> Idle]
    /\ last = NoResponse
    /\ issued = [t \in Tables |-> <<>>]
    /\ deleted = [t \in Tables |-> {}]

\* ----------------------------------------------------------------- helpers
RowIds(rows) == {row.id : row \in rows}

\* db.query(Model).filter(Model.id == id).first(): the row, or None
HasRow(t, id) == id \in RowIds(tables[t])
RowOf(t, id) == CHOOSE row \in tables[t] : row.id = id

\* The time passes.
Tick ==
    /\ clock < MaxClock
    /\ clock' = clock + 1
    /\ UNCHANGED <<tables, id_seq, session, last, issued, deleted>>

\* The handler returns or raises: the response goes out and get_db closes the
\* session.
Respond(r, response) ==
    /\ last' = response
    /\ session' = [session EXCEPT ![r] = Idle]

Range(seq) == {seq[i] : i \in 1..Len(seq)}

\* The clock readings that can follow a reading of t: the clock never runs back.
Later(t) == {u \in t..(t + 1) : u <= MaxClock}

\* --------------------------------------------------------------- create
\* The checks of one pass of the loop, in the order the handler makes them: 200
\* when the feature is inserted, else the status of the exception raised.
\* feature.geometry["type"] raises KeyError without the key, and the text of the
\* geometry raises for coordinates that are too short: an exception that is no
\* HTTPException is answered 500.
FeatureStatus(kind, feature) ==
    IF feature.type # "Feature" THEN 400
    ELSE IF "type" \notin DOMAIN feature.geometry THEN 500
    ELSE IF feature.geometry["type"] # kind THEN 400
    ELSE IF IsError(Wkt(kind, feature.geometry)) THEN 500
    ELSE 200

\* (mutant) the two column defaults are read in the other order
NewRowUpdatedFirst(kind, feature, id, now1, now2) ==
    [id          |-> id,
     name        |-> DictGet(feature.properties, "name", DefaultName(kind)),
     description |-> DictGet(feature.properties, "description", ""),
     created_at  |-> now2,
     updated_at  |-> now1,
     geom        |-> ST_GeomFromText(Wkt(kind, feature.geometry), SRID)]

\* PointData(name=..., description=..., geom=...) / PolygonData(...), with the
\* column defaults filled at the INSERT: created_at and updated_at are two
\* readings of the clock, created_at first.
NewRow(kind, feature, id, now1, now2) ==
    [id          |-> id,
     name        |-> DictGet(feature.properties, "name", DefaultName(kind)),
     description |-> DictGet(feature.properties, "description", ""),
     created_at  |-> now1,
     updated_at  |-> now2,
     geom        |-> ST_GeomFromText(Wkt(kind, feature.geometry), SRID)]

\* (mutant) the next id is computed from the rows that are there
NextIdFromRows(t) ==
    IF tables[t] = {} THEN 1
    ELSE 1 + (CHOOSE m \in RowIds(tables[t]) : \A o \in RowIds(tables[t]) : o <= m)

\* The primary key of the next INSERT: nextval of the table's sequence, which
\* no rollback and no delete sets back.
NextId(t) == id_seq[t] + 1

\* (mutant) the INSERT is committed as it is flushed
FlushAutocommit(r, feature, row) ==
    /\ session' = [session EXCEPT ![r].features = Append(@, feature),
                                  ![r].pending = Append(@, row)]
    /\ tables' = [tables EXCEPT ![TableOf(session[r].kind)] = @ \cup {row}]

\* db.add(row); db.flush(): the INSERT runs in the request's open transaction
\* and the committed rows, which the other requests read, stay as they are.
Flush(r, feature, row) ==
    /\ session' = [session EXCEPT ![r].features = Append(@, feature),
                                  ![r].pending = Append(@, row)]
    /\ tables' = tables

\* (mutant) the rows flushed before the exception stay
RollbackKeepsFlushed(r) ==
    tables' = [tables EXCEPT ![TableOf(session[r].kind)] = @ \cup Range(session[r].pending)]

\* The handler raised: get_db's finally closes the session and the open
\* transaction is rolled back.
Rollback(r) == tables' = tables

\* (mutant) the id is appended after the loop, not in it
CreatedIdsAfterLoop(pending) ==
    IF pending = <<>> THEN <<>> ELSE <<pending[Len(pending)].id>>

\* created_points.append(db_point.id), one per pass
CreatedIds(pending) == [j \in 1..Len(pending) |-> pending[j].id]

CreateResponse(kind, status, ids) ==
    [op |-> "create", kind |-> kind, status |-> status, created_ids |-> ids]

\* The handler up to its loop: the check of the collection's type tag.  The
\* loop reads data.features front to back and once, so the model draws each
\* feature when the loop reaches it; session[r].features holds the ones read.
CreateBegin(kind, r, type) ==
    /\ session[r] = Idle
    /\ IF type # "FeatureCollection"
       THEN /\ Respond(r, CreateResponse(kind, 400, <<>>))
            /\ UNCHANGED <<tables, id_seq, clock, issued, deleted>>
       ELSE /\ session' = [session EXCEPT ![r] =
                   [op |-> "create", kind |-> kind, features |-> <<>>, pending |-> <<>>]]
            /\ UNCHANGED <<tables, id_seq, clock, last, issued, deleted>>

\* One pass of "for feature in data.features", feature the next of the list.
CreateFeature(r, feature) ==
    /\ session[r].op = "create"
    /\ LET s == session[r]
           t == TableOf(s.kind)
           status == FeatureStatus(s.kind, feature)
       IN  /\ Len(s.features) < MaxBatch
           /\ IF status # 200
              THEN /\ Rollback(r)
                   /\ Respond(r, CreateResponse(s.kind, status, <<>>))
                   /\ UNCHANGED <<id_seq, clock, issued, deleted>>
              ELSE /\ id_seq[t] < MaxId
                   /\ \E now2 \in Later(clock) :
                        /\ Flush(r, feature, NewRow(s.kind, feature, NextId(t), clock, now2))
                        /\ clock' = now2
                   /\ id_seq' = [id_seq EXCEPT ![t] = NextId(t)]
                   /\ UNCHANGED <<last, issued, deleted>>

\* The list is at its end: db.commit() after the loop, and the return.
CreateCommit(r) ==
    /\ session[r].op = "create"
    /\ LET s == session[r]
           t == TableOf(s.kind)
       IN  /\ tables' = [tables EXCEPT ![t] = @ \cup Range(s.pending)]
           /\ Respond(r, CreateResponse(s.kind, 200, CreatedIds(s.pending)))
           /\ issued' = [issued EXCEPT ![t] = @ \o CreatedIds(s.pending)]
           /\ UNCHANGED <<id_seq, clock, deleted>>

create_points(R) == \E r \in R, type \in CollectionTypes : CreateBegin("Point", r, type)

create_polygons(R) == \E r \in R, type \in CollectionTypes : CreateBegin("Polygon", r, type)

\* ------------------------------------------------------------------ reads
\* The feature the handlers build from a row.
AsFeature(row) ==
    [type |-> "Feature",
     geometry |-> ST_AsGeoJSON(row.geom),
     properties |-> [id |-> row.id, name |-> row.name,
                     description |-> row.description,
                     created_at |-> row.created_at,
                     updated_at |-> row.updated_at]]

\* query.all(): the rows in the order the storage gives them, here by id
RECURSIVE All(_)
All(rows) ==
    IF rows = {} THEN <<>>
    ELSE LET first == CHOOSE row \in rows : \A o \in rows : row.id <= o.id
         IN  <<first>> \o All(rows \ {first})

FeatureCollection(rows) ==
    [type |-> "FeatureCollection",
     features |-> [i \in 1..Len(All(rows)) |-> AsFeature(All(rows)[i])]]

\* (mutant) a read draws a value of the sequence of each table
ReadFrameDrawsId ==
    /\ id_seq' = [t \in Tables |-> IF id_seq[t] < MaxId THEN id_seq[t] + 1 ELSE id_seq[t]]
    /\ UNCHANGED <<tables, clock, session, issued, deleted>>

\* A read handler adds, changes and commits nothing.
ReadFrame == UNCHANGED <<tables, id_seq, clock, session, issued, deleted>>

GetAll(kind) ==
    /\ last' = [op |-> "get_all", kind |-> kind, status |-> 200,
                body |-> FeatureCollection(tables[TableOf(kind)])]
    /\ ReadFrame

\* The answer of get_point / get_polygon: the feature of the row, or 404.
GetResponse(kind, id) ==
    IF HasRow(TableOf(kind), id)
    THEN [op |-> "get", kind |-> kind, status |-> 200, id |-> id,
          body |-> AsFeature(RowOf(TableOf(kind), id))]
    ELSE [op |-> "get", kind |-> kind, status |-> 404, id |-> id]

GetById(kind, id) ==
    /\ last' = GetResponse(kind, id)
    /\ ReadFrame

get_points == GetAll("Point")
get_point == \E id \in Ids : GetById("Point", id)
get_polygons == GetAll("Polygon")
get_polygon == \E id \in Ids : GetById("Polygon", id)

\* ----------------------------------------------------------------- update
\* (mutant) the body is checked before the row is looked up
UpdateStatusBodyFirst(kind, id, feature) ==
    IF FeatureStatus(kind, feature) # 200 THEN FeatureStatus(kind, feature)
    ELSE IF ~HasRow(TableOf(kind), id) THEN 404 ELSE 200

\* The checks of update_point / update_polygon in their order: the row is
\* looked up first, the body is checked after.
UpdateStatus(kind, id, feature) ==
    IF ~HasRow(TableOf(kind), id) THEN 404 ELSE FeatureStatus(kind, feature)

\* The row after the UPDATE the commit flushes.  The unit of work writes the
\* attributes whose value differs from the loaded one: name and description when
\* the body holds them, geom always, updated_at from the handler's reading of
\* the clock (the column's onupdate reads the clock at the flush when the
\* handler's value equals the loaded one).
UpdatedRow(kind, cur, loaded, feature, now, flush_now) ==
    [cur EXCEPT
       !.name = IF "name" \in DOMAIN feature.properties
                   /\ feature.properties["name"] # loaded.name
                THEN feature.properties["name"] ELSE @,
       !.description = IF "description" \in DOMAIN feature.properties
                          /\ feature.properties["description"] # loaded.description
                       THEN feature.properties["description"] ELSE @,
       !.geom = ST_GeomFromText(Wkt(kind, feature.geometry), SRID),
       !.updated_at = IF now # loaded.updated_at THEN now ELSE flush_now]

\* The handler up to db.commit(): the lookup, the checks, the new values.
UpdateLoad(kind, r, id, feature) ==
    /\ session[r] = Idle
    /\ LET status == UpdateStatus(kind, id, feature)
       IN  IF status # 200
           THEN /\ Respond(r, [op |-> "update", kind |-> kind, status |-> status,
                               id |-> id])
                /\ UNCHANGED <<tables, id_seq, clock, issued, deleted>>
           ELSE /\ session' = [session EXCEPT ![r] =
                       [op |-> "update", kind |-> kind, id |-> id, feature |-> feature,
                        loaded |-> RowOf(TableOf(kind), id), now |-> clock]]
                /\ UNCHANGED <<tables, id_seq, clock, last, issued, deleted>>

\* db.commit(): the UPDATE of the row with that id.  When another request
\* deleted the row meanwhile the UPDATE matches no row and the unit of work
\* raises (StaleDataError).
UpdateCommit(r) ==
    /\ session[r].op = "update"
    /\ LET s == session[r]
           t == TableOf(s.kind)
       IN  IF ~HasRow(t, s.id)
           THEN /\ Respond(r, [op |-> "update", kind |-> s.kind, status |-> 500,
                               id |-> s.id])
                /\ UNCHANGED <<tables, id_seq, clock, issued, deleted>>
           ELSE LET cur == RowOf(t, s.id)
                    new == UpdatedRow(s.kind, cur, s.loaded, s.feature, s.now, clock)
                IN  /\ tables' = [tables EXCEPT ![t] = (@ \ {cur}) \cup {new}]
                    /\ Respond(r, [op |-> "update", kind |-> s.kind, status |-> 200,
                                   id |-> s.id])
                    /\ UNCHANGED <<id_seq, clock, issued, deleted>>

update_point(R, F) ==
    \E r \in R, id \in Ids, feature \in F : UpdateLoad("Point", r, id, feature)

update_polygon(R, F) ==
    \E r \in R, id \in Ids, feature \in F : UpdateLoad("Polygon", r, id, feature)

\* ----------------------------------------------------------------- delete
\* (mutant) the row is marked, not removed
DeleteRowSoft(rows, id) == rows

\* db.delete(row): the rows without the one of that id
DeleteRow(rows, id) == {row \in rows : row.id # id}

\* The handler up to db.delete(): the lookup.
DeleteLoad(kind, r, id) ==
    /\ session[r] = Idle
    /\ IF ~HasRow(TableOf(kind), id)
       THEN /\ Respond(r, [op |-> "delete", kind |-> kind, status |-> 404, id |-> id])
            /\ UNCHANGED <<tables, id_seq, clock, issued, deleted>>
       ELSE /\ session' = [session EXCEPT ![r] =
                   [op |-> "delete", kind |-> kind, id |-> id]]
            /\ UNCHANGED <<tables, id_seq, clock, last, issued, deleted>>

\* db.delete(row); db.commit(): the DELETE of the row with that id (a DELETE
\* that matches no row only warns).
DeleteCommit(r) ==
    /\ session[r].op = "delete"
    /\ LET s == session[r]
           t == TableOf(s.kind)
       IN  /\ tables' = [tables EXCEPT ![t] = DeleteRow(@, s.id)]
           /\ Respond(r, [op |-> "delete", kind |-> s.kind, status |-> 200, id |-> s.id])
           /\ deleted' = [deleted EXCEPT ![t] = @ \cup {s.id}]
           /\ UNCHANGED <<id_seq, clock, issued>>

delete_point(R) == \E r \in R, id \in Ids : DeleteLoad("Point", r, id)
delete_polygon(R) == \E r \in R, id \in Ids : DeleteLoad("Polygon", r, id)

\* -------------------------------------------------------- spatial queries
\* The first query of points_in_polygon and of overlapping_polygons: the
\* polygon of that id, or 404.
PolygonLoad(op, r, polygon_id) ==
    /\ session[r] = Idle
    /\ IF ~HasRow("polygon_data", polygon_id)
       THEN /\ Respond(r, [op |-> op, status |-> 404, id |-> polygon_id])
            /\ UNCHANGED <<tables, id_seq, clock, issued, deleted>>
       ELSE /\ session' = [session EXCEPT ![r] =
                   [op |-> op, id |-> polygon_id,
                    polygon |-> RowOf("polygon_data", polygon_id)]]
            /\ UNCHANGED <<tables, id_seq, clock, last, issued, deleted>>

\* filter(func.ST_Within(PointData.geom, polygon.geom))
WithinFilter(row, polygon) == ST_Within(row.geom, polygon.geom)

\* (mutant) the filter without the id comparison
OverlapFilterWithSelf(row, polygon_id, polygon) ==
    ST_Intersects(row.geom, ST_GeomFromText(ST_AsText(polygon.geom), SRID))

\* filter(PolygonData.id != polygon_id, ST_Intersects(geom, ST_SetSRID(
\* ST_GeomFromText(:wkt), 4326))) with wkt = ST_AsText(polygon.geom)
OverlapFilter(row, polygon_id, polygon) ==
    /\ row.id # polygon_id
    /\ ST_Intersects(row.geom, ST_GeomFromText(ST_AsText(polygon.geom), SRID))

points_in_polygon(R) == \E r \in R, id \in Ids : PolygonLoad("points_in_polygon", r, id)

PointsInPolygonQuery(r) ==
    /\ session[r].op = "points_in_polygon"
    /\ Respond(r, [op |-> "points_in_polygon", status |-> 200, id |-> session[r].id,
                   body |-> FeatureCollection(
                       {row \in tables["point_data"] :
                            WithinFilter(row, session[r].polygon)})])
    /\ UNCHANGED <<tables, id_seq, clock, issued, deleted>>

overlapping_polygons(R) ==
    \E r \in R, id \in Ids : PolygonLoad("overlapping_polygons", r, id)

OverlappingPolygonsQuery(r) ==
    /\ session[r].op = "overlapping_polygons"
    /\ Respond(r, [op |-> "overlapping_polygons", status |-> 200, id |-> session[r].id,
                   body |-> FeatureCollection(
                       {row \in tables["polygon_data"] :
                            OverlapFilter(row, session[r].id, session[r].polygon)})])
    /\ UNCHANGED <<tables, id_seq, clock, issued, deleted>>

\* points_within_distance(lat, lon, distance): the statement is built from the
\* parameters as they come and executed (queried), whatever the distance.
PointsWithinDistance(lat, lon, distance) ==
    /\ last' = [op |-> "points_within_distance", status |-> 200,
                lat |-> lat, lon |-> lon, distance |-> distance,
                queried |-> TRUE,
                body |-> FeatureCollection(
                    {row \in tables["point_data"] :
                         ST_DWithin(row.geom, lon, lat, distance)})]
    /\ ReadFrame

points_within_distance ==
    \E q \in QueryPoints, distance \in Distances : PointsWithinDistance(q[2], q[1], distance)

\* polygons_containing_point(lat, lon): the polygons within one metre of it
PolygonsContainingPoint(lat, lon) ==
    /\ last' = [op |-> "polygons_containing_point", status |-> 200,
                lat |-> lat, lon |-> lon,
                body |-> FeatureCollection(
                    {row \in tables["polygon_data"] :
                         ST_DWithin(row.geom, lon, lat, 1)})]
    /\ ReadFrame

polygons_containing_point == \E q \in QueryPoints : PolygonsContainingPoint(q[2], q[1])

\* ----------------------------------------------------------- specification
\* The whole service: every handler, for every request slot and every body.
Next ==
    \/ Tick
    \/ create_points(Req)
    \/ create_polygons(Req)
    \/ \E r \in Req, feature \in CreateInputs : CreateFeature(r, feature)
    \/ \E r \in Req : CreateCommit(r)
    \/ get_points
    \/ get_point
    \/ get_polygons
    \/ get_polygon
    \/ update_point(Req, UpdateInputs)
    \/ update_polygon(Req, UpdateInputs)
    \/ \E r \in Req : UpdateCommit(r)
    \/ delete_point(Req)
    \/ delete_polygon(Req)
    \/ \E r \in Req : DeleteCommit(r)
    \/ points_in_polygon(Req)
    \/ \E r \in Req : PointsInPolygonQuery(r)
    \/ overlapping_polygons(Req)
    \/ \E r \in Req : OverlappingPolygonsQuery(r)
    \/ points_within_distance
    \/ polygons_containing_point

Spec == Init /\ [][Next]_vars

\* The two tables are independent of each other (only points_in_polygon reads
\* both), so the specifications below let a run address one kind: a request of
\* a kind is taken while the other kind's table was never written.
Other(kind) == IF kind = "Point" THEN "Polygon" ELSE "Point"

Focus(kind) ==
    /\ id_seq[TableOf(Other(kind))] = 0
    /\ \A r \in Req : session[r].op = "create" => session[r].kind = kind

\* Concurrent batch creation and readers.
NextCreate ==
    \/ Tick
    \/ Focus("Point") /\ create_points(Req)
    \/ Focus("Polygon") /\ create_polygons(Req)
    \/ \E r \in Req, feature \in CreateInputs : CreateFeature(r, feature)
    \/ \E r \in Req : CreateCommit(r)
    \/ Focus("Point") /\ get_points
    \/ Focus("Point") /\ get_point
    \/ Focus("Polygon") /\ get_polygons
    \/ Focus("Polygon") /\ get_polygon

SpecCreate == Init /\ [][NextCreate]_vars

\* Concurrent creates, updates and deletes of a few bodies, the clock at rest.
NextCrud ==
    \/ Focus("Point") /\ create_points(Req)
    \/ Focus("Polygon") /\ create_polygons(Req)
    \/ \E r \in Req, feature \in {Named("Point"), Named("Polygon"), BadTag} :
           CreateFeature(r, feature)
    \/ \E r \in Req : CreateCommit(r)
    \/ Focus("Point") /\ update_point(Req, {Renamed("Point")})
    \/ Focus("Polygon") /\ update_polygon(Req, {Renamed("Polygon")})
    \/ \E r \in Req : UpdateCommit(r)
    \/ Focus("Point") /\ delete_point(Req)
    \/ Focus("Polygon") /\ delete_polygon(Req)
    \/ \E r \in Req : DeleteCommit(r)

SpecCrud == Init /\ [][NextCrud]_vars

\* One request at a time, the clock at rest: every handler that looks a row
\* up, with well-formed and malformed bodies.
One == {"r1"}
SeqCreateInputs == {Named("Point"), Named("Polygon")} \cup Malformed
SeqUpdateInputs == {Renamed("Point"), Renamed("Polygon")} \cup Malformed

NextSeq ==
    \/ Focus("Point") /\ create_points(One)
    \/ Focus("Polygon") /\ create_polygons(One)
    \/ \E r \in One, feature \in SeqCreateInputs : CreateFeature(r, feature)
    \/ \E r \in One : CreateCommit(r)
    \/ Focus("Point") /\ get_points
    \/ Focus("Point") /\ get_point
    \/ Focus("Polygon") /\ get_polygons
    \/ Focus("Polygon") /\ get_polygon
    \/ Focus("Point") /\ update_point(One, SeqUpdateInputs)
    \/ Focus("Polygon") /\ update_polygon(One, SeqUpdateInputs)
    \/ \E r \in One : UpdateCommit(r)
    \/ Focus("Point") /\ delete_point(One)
    \/ Focus("Polygon") /\ delete_polygon(One)
    \/ \E r \in One : DeleteCommit(r)
    \/ points_in_polygon(One)
    \/ \E r \in One : PointsInPolygonQuery(r)
    \/ overlapping_polygons(One)
    \/ \E r \in One : OverlappingPolygonsQuery(r)

SpecSeq == Init /\ [][NextSeq]_vars

\* The polygons and the overlap query: slot r1 writes while slot r2 queries.
Two == {"r2"}

NextOverlap ==
    \/ create_polygons(One)
    \/ \E r \in One, feature \in CreateValid("Polygon") : CreateFeature(r, feature)
    \/ \E r \in One : CreateCommit(r)
    \/ update_polygon(One, {Renamed("Polygon")})
    \/ \E r \in One : UpdateCommit(r)
    \/ delete_polygon(One)
    \/ \E r \in One : DeleteCommit(r)
    \/ overlapping_polygons(Two)
    \/ \E r \in Two : OverlappingPolygonsQuery(r)

SpecOverlap == Init /\ [][NextOverlap]_vars

\* The clock moving on: one request creating and deleting rows, updates by
\* that request and by another one.
NextTime ==
    \/ Tick
    \/ Focus("Point") /\ create_points(One)
    \/ Focus("Polygon") /\ create_polygons(One)
    \/ \E r \in One, feature \in {Named("Point"), Named("Polygon")} :
           CreateFeature(r, feature)
    \/ \E r \in One : CreateCommit(r)
    \/ Focus("Point") /\ update_point(Req, {Renamed("Point")})
    \/ Focus("Polygon") /\ update_polygon(Req, {Renamed("Polygon")})
    \/ \E r \in Req : UpdateCommit(r)
    \/ Focus("Point") /\ delete_point(One)
    \/ Focus("Polygon") /\ delete_polygon(One)
    \/ \E r \in One : DeleteCommit(r)

SpecTime == Init /\ [][NextTime]_vars

\* The reads, one request at a time: the read handlers over the rows that
\* creates of well-formed features have committed.
NextRead ==
    \/ create_points(One)
    \/ create_polygons(One)
    \/ \E r \in One : session[r].op = "create"
           /\ CreateFeature(r, Named(session[r].kind))
    \/ \E r \in One : CreateCommit(r)
    \/ get_points
    \/ get_point
    \/ get_polygons
    \/ get_polygon
    \/ points_within_distance
    \/ points_in_polygon(One)
    \/ \E r \in One : PointsInPolygonQuery(r)
    \/ polygons_containing_point
    \/ overlapping_polygons(One)
    \/ \E r \in One : OverlappingPolygonsQuery(r)

SpecRead == Init /\ [][NextRead]_vars

\* Create, then read: one request at a time creates features of its kind,
\* named and unnamed, with coarse and with fine coordinates, and reads them.
RoundTripInputs(kind) == CreateValid(kind) \cup {Fine(kind)}

NextRoundTrip ==
    \/ Focus("Point") /\ create_points(One)
    \/ Focus("Polygon") /\ create_polygons(One)
    \/ \E r \in One : session[r].op = "create"
           /\ \E feature \in RoundTripInputs(session[r].kind) : CreateFeature(r, feature)
    \/ \E r \in One : CreateCommit(r)
    \/ Focus("Point") /\ get_point
    \/ Focus("Polygon") /\ get_polygon

SpecRoundTrip == Init /\ [][NextRoundTrip]_vars

\* ------------------------------------------------------------------ claims
PendingIds(r) == RowIds(Range(session[r].pending))
BodyIds(body) == {body.features[i].properties.id : i \in 1..Len(body.features)}

\* The step in which the request of slot r, a create, answers.
FinishesCreate(r) == session[r].op = "create" /\ session'[r] = Idle

\* A feature the create endpoint of a kind accepts by its tags.
TagsFit(kind, feature) ==
    /\ feature.type = "Feature"
    /\ "type" \in DOMAIN feature.geometry
    /\ feature.geometry["type"] = kind

\* C1: a create_points / create_polygons call that fails (a feature with a
\* wrong type tag or geometry type, at any place of the batch) leaves the
\* committed rows as they were, the rows flushed before the failure included;
\* a call that succeeds has read no such feature; and no committed row ever
\* has an id that no successful create returned.
C1_BatchAtomicity ==
    [][ /\ \A r \in Req :
             /\ (FinishesCreate(r) /\ last'.status # 200) => tables' = tables
             /\ (FinishesCreate(r) /\ last'.status = 200) =>
                    \A i \in 1..Len(session[r].features) :
                        TagsFit(session[r].kind, session[r].features[i])
        /\ \A t \in Tables : RowIds(tables'[t]) \subseteq Range(issued'[t]) ]_vars

\* a batch failed with 400 after its first feature was flushed: the id is
\* used up, no row is there
C1_Witness ==
    /\ last.op = "create" /\ last.status = 400
    /\ \A r \in Req : session[r] = Idle
    /\ \E t \in Tables : id_seq[t] = 1 /\ issued[t] = <<>> /\ tables[t] = {}

\* C2: while a create request of a batch is under way no reader sees a row of
\* it: the rows it has flushed are not among the committed rows, nor in the
\* answer of a get-all or a get of the kind; the committed rows, and the rows a
\* get-all answers, are those of the batches that returned, each one whole.
C2_AllOrNothingVisibility ==
    /\ \A t \in Tables : RowIds(tables[t]) = Range(issued[t])
    /\ last.op = "get_all" => BodyIds(last.body) = Range(issued[TableOf(last.kind)])
    /\ \A r \in Req : session[r].op = "create" =>
         /\ PendingIds(r) \cap RowIds(tables[TableOf(session[r].kind)]) = {}
         /\ (last.op = "get_all" /\ last.kind = session[r].kind)
                => PendingIds(r) \cap BodyIds(last.body) = {}
         /\ (last.op = "get" /\ last.kind = session[r].kind /\ last.id \in PendingIds(r))
                => last.status = 404

\* a get-all answered while a batch had a row flushed: the answer holds a row
\* committed after that flush (its id is larger) and not the flushed row
C2_Witness ==
    \E r \in Req :
        /\ session[r].op = "create" /\ session[r].pending # <<>>
        /\ last.op = "get_all" /\ last.kind = session[r].kind
        /\ \E id \in BodyIds(last.body) : \A p \in PendingIds(r) : p < id

\* C3: a successful create of n features answers n ids, the i-th the id of the
\* committed row made from the i-th feature, pairwise distinct, none the id of
\* a row committed before the call.
C3_CreatedIdsInInputOrder ==
    [][\A r \in Req : (FinishesCreate(r) /\ last'.status = 200) =>
         LET kind == session[r].kind
             features == session[r].features
             ids == last'.created_ids
         IN  /\ Len(ids) = Len(features)
             /\ \A i \in 1..Len(ids) :
                  \E row \in tables'[TableOf(kind)] :
                     /\ row.id = ids[i]
                     /\ row.name = DictGet(features[i].properties, "name", DefaultName(kind))
                     /\ row.description = DictGet(features[i].properties, "description", "")
                     /\ ST_AsGeoJSON(row.geom).coordinates = features[i].geometry.coordinates
             /\ \A i, j \in 1..Len(ids) : i # j => ids[i] # ids[j]
             /\ Range(ids) \cap RowIds(tables[TableOf(kind)]) = {} ]_vars

\* a create of two different features answered two ids, next to an older row
C3_Witness ==
    /\ last.op = "create" /\ last.status = 200 /\ Len(last.created_ids) = 2
    /\ \E a, b \in tables[TableOf(last.kind)] :
          /\ a.id = last.created_ids[1] /\ b.id = last.created_ids[2]
          /\ a.name # b.name

NoDuplicates(seq) == \A i, j \in 1..Len(seq) : i # j => seq[i] # seq[j]

\* C4: the ids the creates of a kind return are pairwise different over the
\* whole run, also after a delete and after a batch that failed; the rows in
\* flight have ids no create returned; and the ids of the committed rows are
\* those returned and not deleted, so no update changes an id.
C4_IdentityNeverReused ==
    \A t \in Tables :
        /\ NoDuplicates(issued[t])
        /\ RowIds(tables[t]) = Range(issued[t]) \ deleted[t]
        /\ Cardinality(tables[t]) = Cardinality(RowIds(tables[t]))
        /\ \A r \in Req : (session[r].op = "create" /\ TableOf(session[r].kind) = t) =>
               /\ PendingIds(r) \cap Range(issued[t]) = {}
               /\ Cardinality(PendingIds(r)) = Len(session[r].pending)

\* a create returned 1 and its row was deleted; the next create returned 2
C4_Witness ==
    \E t \in Tables :
        /\ last.op = "create" /\ last.status = 200 /\ last.created_ids = <<2>>
        /\ issued[t] = <<1, 2>> /\ deleted[t] = {1}
        /\ RowIds(tables[t]) = {2}

\* C9: every row, committed or flushed, has updated_at >= created_at.
C9_UpdatedNotBeforeCreated ==
    /\ \A t \in Tables : \A row \in tables[t] : row.updated_at >= row.created_at
    /\ \A r \in Req : session[r].op = "create" =>
           \A row \in Range(session[r].pending) : row.updated_at >= row.created_at

\* an update answered, and its row carries a later updated_at than created_at
C9_Witness ==
    /\ last.op = "update" /\ last.status = 200
    /\ \E row \in tables[TableOf(last.kind)] :
          row.id = last.id /\ row.created_at = 0 /\ row.updated_at = MaxClock

\* C5: a deleted id is never the id of a committed row again and is in no
\* answer of a get-all or a spatial query; a get, an update and a delete that
\* look the id up after the delete succeeded answer 404.
C5_DeleteIsPermanent ==
    [][ /\ \A t \in Tables : deleted'[t] \cap RowIds(tables'[t]) = {}
        /\ last'.op \in {"get_all", "overlapping_polygons"} /\ last'.status = 200
              => BodyIds(last'.body) \cap
                 deleted'[IF last'.op = "get_all" THEN TableOf(last'.kind)
                          ELSE "polygon_data"] = {}
        /\ last'.op = "points_in_polygon" /\ last'.status = 200
              => BodyIds(last'.body) \cap deleted'["point_data"] = {}
        /\ \A kind \in Kinds : \A id \in deleted[TableOf(kind)] :
              /\ GetById(kind, id) => last'.status = 404
              /\ \A r \in Req :
                    /\ DeleteLoad(kind, r, id) => last'.status = 404 /\ session'[r] = Idle
                    /\ \A feature \in UpdateInputs :
                          UpdateLoad(kind, r, id, feature)
                              => last'.status = 404 /\ session'[r] = Idle ]_vars

\* id 1 was deleted, another row was created after, and a request for id 1
\* was answered 404
C5_Witness ==
    \E kind \in Kinds :
        /\ 1 \in deleted[TableOf(kind)] /\ 2 \in RowIds(tables[TableOf(kind)])
        /\ last.op \in {"get", "update", "delete"} /\ last.kind = kind
        /\ last.id = 1 /\ last.status = 404

\* The step in which the request of slot r, an update, answers success.
FinishesUpdate(r) ==
    session[r].op = "update" /\ session'[r] = Idle /\ last'.status = 200

\* C6: a successful update sets name and description when, and only when, the
\* body's properties hold them, replaces the geometry, sets updated_at to a
\* value greater than the row's previous updated_at, and leaves id,
\* created_at and every other row as they were.
C6_UpdateFieldSemantics ==
    [][\A r \in Req : FinishesUpdate(r) =>
         LET s == session[r]
             t == TableOf(s.kind)
             props == s.feature.properties
             before == RowOf(t, s.id)
             after == CHOOSE row \in tables'[t] : row.id = s.id
         IN  /\ after.name = DictGet(props, "name", before.name)
             /\ after.description = DictGet(props, "description", before.description)
             /\ ST_AsGeoJSON(after.geom).coordinates = s.feature.geometry.coordinates
             /\ after.updated_at > before.updated_at
             /\ after.id = before.id /\ after.created_at = before.created_at
             /\ tables'[t] \ {after} = tables[t] \ {before}
             /\ \A o \in Tables \ {t} : tables'[o] = tables[o] ]_vars

\* A body that is malformed for the endpoint of a kind: a wrong type tag, a
\* geometry without or with the wrong type, or coordinates too short for it.
IsMalformed(kind, feature) ==
    \/ ~TagsFit(kind, feature)
    \/ "coordinates" \notin DOMAIN feature.geometry
    \/ kind = "Point" /\ Len(feature.geometry.coordinates) < 2
    \/ kind = "Polygon" /\ \E i \in 1..Len(feature.geometry.coordinates) :
                               Len(feature.geometry.coordinates[i]) < 4

\* C7: a create whose collection or whose feature is malformed, and an update
\* of an existing row whose feature is malformed, answer 400 and leave the
\* committed rows as they were.
C7_MalformedIs400 ==
    [][\A r \in Req, kind \in Kinds :
         /\ CreateBegin(kind, r, "Feature") => last'.status = 400 /\ tables' = tables
         /\ \A feature \in CreateInputs \cup UpdateInputs : IsMalformed(kind, feature) =>
              /\ (session[r].op = "create" /\ session[r].kind = kind
                    /\ CreateFeature(r, feature))
                  => last'.status = 400 /\ session'[r] = Idle /\ tables' = tables
              /\ \A id \in Ids : (HasRow(TableOf(kind), id)
                    /\ UpdateLoad(kind, r, id, feature))
                  => last'.status = 400 /\ session'[r] = Idle /\ tables' = tables ]_vars

\* The step answers 404 and leaves the committed rows as they were.
AnswersNotFound == last'.status = 404 /\ tables' = tables

\* The step is the lookup, by the request of slot r, of an id that no row of
\* the kind has: that of an update (whatever its body), of a delete, of a
\* points_in_polygon or of an overlapping_polygons.
LooksUpMissing(r) ==
    \E kind \in Kinds, id \in Ids :
        /\ ~HasRow(TableOf(kind), id)
        /\ \/ DeleteLoad(kind, r, id)
           \/ \E feature \in UpdateInputs : UpdateLoad(kind, r, id, feature)
           \/ \E op \in {"points_in_polygon", "overlapping_polygons"} :
                  kind = "Polygon" /\ PolygonLoad(op, r, id)

\* The step is a get of an id that no row of the kind has.
GetsMissing ==
    \E kind \in Kinds, id \in Ids : ~HasRow(TableOf(kind), id) /\ GetById(kind, id)

\* C8: a get, an update (whatever its body), a delete, a points_in_polygon and
\* an overlapping_polygons of an id that no row of the kind has answer 404,
\* end the request and leave the committed rows as they were.
C8_NotFoundOnMissingId ==
    [][ /\ AnswersNotFound \/ ~GetsMissing
        /\ \A r \in Req :
              (AnswersNotFound /\ session'[r] = Idle) \/ ~LooksUpMissing(r) ]_vars

\* an update with a malformed body of an id that a row had and lost was
\* answered 404, with another row still there
C8_Witness ==
    /\ last.op = "update" /\ last.status = 404
    /\ last.id \in deleted[TableOf(last.kind)]
    /\ tables[TableOf(last.kind)] # {}

C11_NegativeDistanceRejected ==
    [][\A q \in QueryPoints, distance \in Distances :
         (distance < 0 /\ PointsWithinDistance(q[2], q[1], distance))
             => last'.status \in 400..499 /\ ~last'.queried ]_vars

\* The step is one of a read handler: a get-all, a get by id, or a statement
\* of one of the four spatial queries.
ReadStep ==
    \/ get_points \/ get_point \/ get_polygons \/ get_polygon
    \/ points_within_distance \/ polygons_containing_point
    \/ points_in_polygon(Req) \/ overlapping_polygons(Req)
    \/ \E r \in Req : PointsInPolygonQuery(r) \/ OverlappingPolygonsQuery(r)

ReadOps ==
    {"get_all", "get", "points_within_distance", "points_in_polygon",
     "polygons_containing_point", "overlapping_polygons"}

\* The query an answer is the answer of: the handler and its parameters.
QueryOf(response) ==
    IF response.op = "get_all" THEN <<response.op, response.kind>>
    ELSE IF response.op = "get" THEN <<response.op, response.kind, response.id>>
    ELSE IF response.op = "points_within_distance"
         THEN <<response.op, response.lat, response.lon, response.distance>>
    ELSE IF response.op = "polygons_containing_point"
         THEN <<response.op, response.lat, response.lon>>
    ELSE <<response.op, response.id>>

Creates(r, j, kind, id, feature) ==
    /\ FinishesCreate(r) /\ last'.status = 200
    /\ session[r].kind = kind
    /\ j \in 1..Len(session[r].features)
    /\ session[r].features[j] = feature
    /\ last'.created_ids[j] = id

\* What get_point / get_polygon of the id answers after the step, nothing
\* written since.
ReadBack(kind, id) == GetResponse(kind, id)'

\* The answer is the feature of that id, named as the created feature is, or
\* by the default of its kind.
ReadsIdAndName(got, kind, id, feature) ==
    /\ got.status = 200 /\ got.body.type = "Feature"
    /\ got.body.properties.id = id
    /\ got.body.properties.name =
          IF "name" \in DOMAIN feature.properties THEN feature.properties["name"]
          ELSE IF kind = "Point" THEN "Unnamed Point" ELSE "Unnamed Polygon"

\* C13 as stated: after a successful create, a get of a returned id answers a
\* feature of type Feature with that id, with the name of the created feature
\* (the default name of the kind when it has none) and, for a point, a Point
\* geometry whose coordinates are equal to those created.
C13_RoundTripEqual ==
    [][\A r \in Req, j \in 1..MaxBatch, kind \in Kinds, id \in Ids :
         \A feature \in RoundTripInputs(kind) :
            Creates(r, j, kind, id, feature) =>
                /\ ReadsIdAndName(ReadBack(kind, id), kind, id, feature)
                /\ kind = "Point" =>
                      /\ ReadBack(kind, id).body.geometry.type = "Point"
                      /\ ReadBack(kind, id).body.geometry.coordinates
                            = feature.geometry.coordinates ]_vars

\* C13, amended: as above, the coordinates of the point read being the two
\* created up to the rounding of the answer: each differs from the created
\* one by at most half of 1e-9 degrees.
C13_RoundTripWithinTolerance ==
    [][\A r \in Req, j \in 1..MaxBatch, kind \in Kinds, id \in Ids :
         \A feature \in RoundTripInputs(kind) :
            Creates(r, j, kind, id, feature) =>
                /\ ReadsIdAndName(ReadBack(kind, id), kind, id, feature)
                /\ kind = "Point" =>
                      /\ ReadBack(kind, id).body.geometry.type = "Point"
                      /\ Len(ReadBack(kind, id).body.geometry.coordinates) = 2
                      /\ \A k \in 1..2 :
                            2 * Abs(ReadBack(kind, id).body.geometry.coordinates[k]
                                    - feature.geometry.coordinates[k]) <= 10 ]_vars

\* a point created with a tenth decimal digit in its coordinates and one
\* created without a name were read: the first with its coordinates rounded
\* and its name, the other under the default name
C13_Witness ==
    /\ last.op = "get" /\ last.status = 200 /\ last.kind = "Point"
    /\ last.body.geometry.coordinates = <<10, 30>>
    /\ last.body.properties.name = "n3"
    /\ \E row \in tables["point_data"] : row.name = "Unnamed Point"

====
